---- MODULE Spec2Model ----
(***************************************************************************)
(* CoupledModel (big_leaf.py): the iterative solve of leaf temperature,    *)
(* surface CO2, surface VPD, An and gs for one big leaf, scaled to the     *)
(* canopy by LAI.                                                          *)
(*                                                                         *)
(* Numbers are fixed-point integers; divisions round towards minus         *)
(* infinity.  Scales:                                                      *)
(*   temperatures          0.01 deg C / 0.01 K                             *)
(*   par                   umol m-2 s-1                                    *)
(*   vpd, dleaf, dair      0.001 kPa                                       *)
(*   pressure              Pa                                              *)
(*   Ca, Cs, Ci            umol mol-1                                      *)
(*   An                    0.001 umol m-2 s-1                              *)
(*   gsc, grn, gh, gbH, gbc, gw   mmol m-2 s-1                             *)
(*   et                    mmol m-2 s-1                                    *)
(*   rnet, le_et, H        W m-2                                           *)
(*   elevation, zenith     degrees;  cos_zenith in thousandths             *)
(*   LAI                   m2 m-2                                          *)
(* The collaborators FarquharC3, PenmanMonteith and                        *)
(* calculate_solar_geometry are other modules: their answers are drawn     *)
(* from finite sets.  With det = TRUE an answer once given for an input is *)
(* given again for that input (a deterministic collaborator).              *)
(***************************************************************************)
EXTENDS Integers, Sequences, FiniteSets, TLC

VARIABLES
    self,        \* the CoupledModel instance: its attributes
    args,        \* the arguments of the running (or last) call of main
    pc,          \* position of the call of main
    dleaf, dair, Cs, Tleaf, Tleaf_K, elevation, iter,   \* locals of main
    An, gsc, Ci,                                        \* ... from calc_photosynthesis
    new_tleaf, et, le_et, gbH, gw,                      \* ... from calc_leaf_temp
    result,      \* <<an_canopy, gsw_canopy, et_canopy>> once returned
    raised,      \* <<iter>> once 'No convergence: %d' % iter was raised
    trace,       \* what the running call has done so far (observer)
    det,         \* collaborators answer as functions of their input
    memo,        \* det: the answers given so far, by method and input
    seen,        \* det: outcome of the first finished call, per argument list
    ncalls       \* calls of main started on this instance

vars ==
    <<self, args, pc, dleaf, dair, Cs, Tleaf, Tleaf_K, elevation, iter,
      An, gsc, Ci, new_tleaf, et, le_et, gbH, gw, result, raised,
      trace, det, memo, seen, ncalls>>

locals ==
    <<dleaf, dair, Cs, Tleaf, Tleaf_K, elevation, iter,
      An, gsc, Ci, new_tleaf, et, le_et, gbH, gw>>

-----------------------------------------------------------------------------
(* Bounds of the model *)

\* iter_max is drawn from 0 .. MaxIterMax at construction
MaxIterMax == 1

\* calls of main made on one instance
MaxCalls == 3

-----------------------------------------------------------------------------
(* Python values *)

\* None; an optional argument that is given is the one-element tuple of its
\* value
None == <<>>

\* the content of a numeric local that is not bound (yet)
Unbound == -999999

Abs(x) == IF x < 0 THEN -x ELSE x

Max(a, b) == IF a >= b THEN a ELSE b

\* math.isclose(a, b) with the default rel_tol = 1e-09 and abs_tol = 0.0
isclose(a, b) ==
    Abs(a - b) <= Max(Abs(a), Abs(b)) \div 1000000000

\* math.fabs
fabs(x) == Abs(x)

-----------------------------------------------------------------------------
(* constants.py *)

\* c.DEG_2_KELVIN = 273.15, in 0.01 K
DEG_2_KELVIN == 27315

\* c.GBH_2_GBC = 1 / 1.32, in thousandths
GBH_2_GBC == 758

\* c.GSC_2_GSW = 1.57, in thousandths
GSC_2_GSW == 1570

\* c.PA_2_KPA = 0.001 kPa per Pa: one 0.001 kPa per Pa
PA_2_KPA == 1

\* c.RSPECIFC_DRY_AIR, J kg-1 K-1
RSPECIFC_DRY_AIR == 287

\* c.RGAS = 8.314 J mol-1 K-1, in thousandths
RGAS == 8314

\* c.CP, J kg-1 K-1
CP == 1010

-----------------------------------------------------------------------------
(* radiation.calculate_solar_geometry, numpy *)

\* cos(zenith) in thousandths, by hour of day (doy, lat, lon fixed)
calculate_solar_geometry(doy, hod, lat, lon) ==
    CASE hod = 0  -> -866
      [] hod = 6  -> 0
      [] hod = 9  -> 500
      [] OTHER    -> 866

\* np.rad2deg(np.arccos(x)), x in thousandths
rad2deg_arccos(x) ==
    CASE x = -866 -> 150
      [] x = 0    -> 90
      [] x = 500  -> 60
      [] OTHER    -> 30

-----------------------------------------------------------------------------
(* CoupledModel.__init__ *)

\* the instances the model constructs: the parameters are fixed, iter_max varies
CoupledModel(iter_max) ==
    [g0 |-> 0, g1 |-> 4, D0 |-> 1500, gamma |-> 0, Vcmax25 |-> 60,
     Jmax25 |-> 120, Rd25 |-> 2, Eaj |-> 30000, Eav |-> 60000,
     deltaSj |-> 650, deltaSv |-> 630, Hdv |-> 200000, Hdj |-> 200000,
     Q10 |-> 2, leaf_width |-> 20, alpha |-> None, SW_abs |-> 500,
     gs_model |-> "medlyn", iter_max |-> iter_max, emissivity_leaf |-> 990]

-----------------------------------------------------------------------------
(* The arguments of main, and the answers of the collaborators *)

\* argument lists of main
Forcing ==
    IF det
    THEN [tair : {2000, 2500}, par : {1500}, vpd : {1500}, wind : {2},
          pressure : {101325}, Ca : {400}, doy : {180}, hod : {12},
          lat : {-33}, lon : {150}, LAI : {2}, rnet : {<<400>>}]
    ELSE [tair : {2000}, par : {20, 21}, vpd : {1500}, wind : {2},
          pressure : {101325}, Ca : {400}, doy : {180}, hod : {0, 6, 9},
          lat : {-33}, lon : {150}, LAI : {0, 2}, rnet : {None, <<400>>}]

\* (An, gsc, Ci) answers of FarquharC3.calc_photosynthesis
calc_photosynthesis_results ==
    IF det
    THEN {<<10000, 300, 280>>, <<-1000, 0, 400>>}
    ELSE {<<10000, 300, 280>>, <<-1000, 0, 400>>, <<5000, 0, 300>>}

\* rnet answers of PenmanMonteith.calc_rnet
calc_rnet_results == {400, 132}

\* (grn, gh, gbH, gw) answers of PenmanMonteith.calc_conductances: answers on
\* which the divisions of calc_leaf_temp (by 2 * gbH, by 1 + grn / gbH and by
\* gh / cmolar) are defined; gw = 0 and a negative gbH are among them
calc_conductances_results ==
    IF det
    THEN {<<100, 4200, 2000, 400>>}
    ELSE {<<100, 4200, 2000, 400>>, <<100, 2200, 1000, 0>>,
          <<100, 4200, -2000, 400>>}

\* (et, le_et) answers of PenmanMonteith.calc_et
calc_et_results == {<<3, 132>>, <<0, 0>>}

\* the answers a collaborator may give to the call `key`
Answers(key, vals) ==
    IF det /\ key \in DOMAIN memo THEN {memo[key]} ELSE vals

\* memo after the calls `keys` were answered by `ans` (a function on keys)
Remember(keys, ans) ==
    IF det
    THEN [k \in DOMAIN memo \cup keys |->
             IF k \in DOMAIN memo THEN memo[k] ELSE ans[k]]
    ELSE memo

-----------------------------------------------------------------------------
(* CoupledModel.calc_leaf_temp *)

\* air_density = pressure / (c.RSPECIFC_DRY_AIR * tair_k), in g m-3
air_density_of(pressure, tair_k) ==
    (((pressure * 1000) \div RSPECIFC_DRY_AIR) * 100) \div tair_k

\* cmolar = pressure / (c.RGAS * tair_k), in mmol m-3
cmolar_of(pressure, tair_k) ==
    (((pressure * 1000) \div RGAS) * 100000) \div tair_k

\* the calls calc_leaf_temp may make on P, as memo keys
key_rnet(tleaf, tair, par, vpd, pressure) ==
    <<"calc_rnet", par, tair, tair + DEG_2_KELVIN, tleaf + DEG_2_KELVIN,
      vpd, pressure>>

key_conductances(tleaf, tair, wind, gsc_, pressure) ==
    <<"calc_conductances", tair + DEG_2_KELVIN, tleaf, tair, wind, gsc_,
      cmolar_of(pressure, tair + DEG_2_KELVIN)>>

key_et(tleaf, tair, vpd, pressure, wind, par, gh, gw_, rnet) ==
    <<"calc_et", tleaf, tair, vpd, pressure, wind, par, gh, gw_, rnet>>

\* slip: closed stomata tested by sign
stomata_closed_sign(gsc_) == gsc_ < 0

\* if math.isclose(gsc, 0.0)
stomata_closed(gsc_) == isclose(gsc_, 0)

\* P gives the answer of each method of PenmanMonteith, should it be called:
\* P.calc_rnet, P.calc_conductances = <<grn, gh, gbH, gw>>, P.calc_et =
\* <<et, le_et>>.  `calls` lists the methods that were called.
calc_leaf_temp(P, tleaf, tair, gsc_, par, vpd, pressure, wind, rnet_arg) ==
    LET tleaf_k == tleaf + DEG_2_KELVIN
        tair_k == tair + DEG_2_KELVIN
        air_density == air_density_of(pressure, tair_k)
        cmolar == cmolar_of(pressure, tair_k)
        rnet == IF rnet_arg = None THEN P.calc_rnet ELSE rnet_arg[1]
        grn == P.calc_conductances[1]
        gh == P.calc_conductances[2]
        gbH_ == P.calc_conductances[3]
        gw_ == P.calc_conductances[4]
        noflux == stomata_closed(gsc_)
        et_ == IF noflux THEN 0 ELSE P.calc_et[1]
        le_et_ == IF noflux THEN 0 ELSE P.calc_et[2]
        \* Y = 1.0 / (1.0 + (2.0 * grn) / (2.0 * gbH)), in thousandths
        Y == (1000 * 1000) \div (1000 + ((2 * grn * 1000) \div (2 * gbH_)))
        H == (Y * (rnet - le_et_)) \div 1000
        \* c.CP * air_density * (gh / cmolar), in W m-2 K-1
        capacitance == (((CP * air_density) \div 1000)
                            * ((gh * 1000) \div cmolar)) \div 1000
        new_Tleaf == tair + (H * 100) \div capacitance
    IN  [new_Tleaf |-> new_Tleaf, et |-> et_, le_et |-> le_et_,
         gbH |-> gbH_, gw |-> gw_,
         calls |-> (IF rnet_arg = None
                      THEN {key_rnet(tleaf, tair, par, vpd, pressure)} ELSE {})
                   \cup {key_conductances(tleaf, tair, wind, gsc_, pressure)}
                   \cup (IF noflux THEN {}
                         ELSE {key_et(tleaf, tair, vpd, pressure, wind, par,
                                      gh, gw_, rnet)})]

-----------------------------------------------------------------------------
(* CoupledModel.main: its tests and assignments *)

\* the PAR threshold of "Is the sun up?", umol m-2 s-1
PAR_MIN == 20

\* the leaf-temperature tolerance 0.02 deg C, in 0.01 deg C
TOL == 2

\* elevation = 90.0 - zenith_angle
elevation_of(doy, hod, lat, lon) ==
    90 - rad2deg_arccos(calculate_solar_geometry(doy, hod, lat, lon))

\* slip: `or` for `and`
sun_up_either(elev, par) == elev > 0 \/ par > PAR_MIN

\* if elevation > 0.0 and par > 20.0
sun_up(elev, par) == elev > 0 /\ par > PAR_MIN

\* gbc = gbH * c.GBH_2_GBC
gbc_of(gbH_) == (gbH_ * GBH_2_GBC) \div 1000

\* slip: the test of An left out
surface_co2_any_an(Ca, An_, gbc) ==
    IF gbc > 0 THEN Ca - (An_ \div gbc) ELSE Ca

\* Cs after an iteration: Ca - An / gbc, or Ca
surface_co2(Ca, An_, gbc) ==
    IF gbc > 0 /\ An_ > 0 THEN Ca - (An_ \div gbc) ELSE Ca

\* the divisors An was divided by in surface_co2
surface_co2_divisors(An_, gbc) ==
    IF gbc > 0 /\ An_ > 0 THEN {gbc} ELSE {}

\* dleaf after an iteration: dair, or (et * pressure / gw) * c.PA_2_KPA
surface_vpd(et_, gw_, pressure, dair_) ==
    IF isclose(et_, 0) \/ isclose(gw_, 0)
    THEN dair_
    ELSE ((et_ * pressure) \div gw_) * PA_2_KPA

\* slip: the difference without math.fabs
converged_signed(Tleaf_, new_tleaf_) == Tleaf_ - new_tleaf_ < TOL

\* if math.fabs(Tleaf - new_tleaf) < 0.02: break
converged(Tleaf_, new_tleaf_) == fabs(Tleaf_ - new_tleaf_) < TOL

\* if iter > self.iter_max: raise
capped(iter_, iter_max) == iter_ > iter_max

\* slip: Tleaf_K not refreshed from the new Tleaf
advance_stale_kelvin(Tleaf_, new_tleaf_) ==
    <<new_tleaf_, Tleaf_ + DEG_2_KELVIN>>

\* Tleaf = new_tleaf; Tleaf_K = Tleaf + c.DEG_2_KELVIN
advance(Tleaf_, new_tleaf_) == <<new_tleaf_, new_tleaf_ + DEG_2_KELVIN>>

\* slip: the counter is not advanced
next_iter_stuck(iter_) == iter_

\* iter += 1
next_iter(iter_) == iter_ + 1

\* slip: gsc scaled without the conversion to water vapour
canopy_gsc(An_, gsc_, et_, LAI) ==
    <<An_ * LAI, gsc_ * LAI, et_ * LAI>>

\* slip: an_canopy left per leaf
canopy_leaf_an(An_, gsc_, et_, LAI) ==
    <<An_, ((gsc_ * GSC_2_GSW) \div 1000) * LAI, et_ * LAI>>

\* (an_canopy, gsw_canopy, et_canopy) of the sun-up branch
canopy(An_, gsc_, et_, LAI) ==
    <<An_ * LAI, ((gsc_ * GSC_2_GSW) \div 1000) * LAI, et_ * LAI>>

\* (an_canopy, gsw_canopy, et_canopy) of the else branch
dark == <<0, 0, 0>>

-----------------------------------------------------------------------------
(* Observers *)

\* nothing done yet in this call
NoTrace ==
    [nphoto |-> 0, nleaftemp |-> 0, calls |-> {}, F_Tleaf |-> Unbound,
     F_Cs |-> Unbound, F_vpd |-> Unbound, F_out |-> None,
     LT_tleaf |-> Unbound, LT_gsc |-> Unbound, LT_out |-> None,
     divisors |-> {}]

\* how the call that just ended ended
Outcome(res, exc) ==
    IF exc = None THEN <<"return", res>> ELSE <<"raise", exc>>

\* seen after a call with arguments a has ended
Seen(a, res, exc) ==
    IF det /\ a \notin DOMAIN seen
    THEN [k \in DOMAIN seen \cup {a} |->
             IF k = a THEN Outcome(res, exc) ELSE seen[k]]
    ELSE seen

-----------------------------------------------------------------------------
(* CoupledModel.main *)

\* slip: the leaf temperature of the previous call is kept
initial_values_kept(a) ==
    [dleaf |-> a.vpd, dair |-> a.vpd, Cs |-> a.Ca,
     Tleaf |-> IF ncalls = 0 THEN a.tair ELSE Tleaf,
     Tleaf_K |-> IF ncalls = 0 THEN a.tair + DEG_2_KELVIN ELSE Tleaf_K]

\* set initial values
initial_values(a) ==
    [dleaf |-> a.vpd, dair |-> a.vpd, Cs |-> a.Ca, Tleaf |-> a.tair,
     Tleaf_K |-> a.tair + DEG_2_KELVIN]

\* entry, initial values, the test of the sun, and the else branch
Main_Enter ==
    /\ pc \in {"idle", "done", "raised"}
    /\ ncalls < MaxCalls
    /\ \E a \in Forcing :
         LET elev == elevation_of(a.doy, a.hod, a.lat, a.lon)
             up == sun_up(elev, a.par)
             iv == initial_values(a)
         IN  /\ args' = a
             /\ ncalls' = ncalls + 1
             /\ dleaf' = iv.dleaf
             /\ dair' = iv.dair
             /\ Cs' = iv.Cs
             /\ Tleaf' = iv.Tleaf
             /\ Tleaf_K' = iv.Tleaf_K
             /\ elevation' = elev
             /\ iter' = IF up THEN 0 ELSE Unbound
             /\ An' = Unbound /\ gsc' = Unbound /\ Ci' = Unbound
             /\ new_tleaf' = Unbound /\ et' = Unbound /\ le_et' = Unbound
             /\ gbH' = Unbound /\ gw' = Unbound
             /\ trace' = NoTrace
             /\ raised' = None
             /\ result' = IF up THEN None ELSE dark
             /\ pc' = IF up THEN "photo" ELSE "done"
             /\ seen' = IF up THEN seen ELSE Seen(a, dark, None)
    /\ UNCHANGED <<self, det, memo>>

\* (An, gsc, Ci) = F.calc_photosynthesis(Cs=Cs, Tleaf=Tleaf_K, ..., vpd=dleaf)
CalcPhotosynthesis ==
    /\ pc = "photo"
    /\ LET key == <<"calc_photosynthesis", Cs, Tleaf_K, args.par,
                    self.Jmax25, self.Vcmax25, self.Q10, self.Eaj, self.Eav,
                    self.deltaSj, self.deltaSv, self.Rd25, self.Hdv,
                    self.Hdj, dleaf>>
       IN  \E r \in Answers(key, calc_photosynthesis_results) :
             /\ An' = r[1]
             /\ gsc' = r[2]
             /\ Ci' = r[3]
             /\ memo' = Remember({key}, [k \in {key} |-> r])
             /\ trace' = [trace EXCEPT !.nphoto = @ + 1, !.F_Tleaf = Tleaf_K,
                                       !.F_Cs = Cs, !.F_vpd = dleaf,
                                       !.F_out = r]
    /\ pc' = "leaftemp"
    /\ UNCHANGED <<self, args, dleaf, dair, Cs, Tleaf, Tleaf_K, elevation,
                   iter, new_tleaf, et, le_et, gbH, gw, result, raised,
                   det, seen, ncalls>>

\* (new_tleaf, et, le_et, gbH, gw) = self.calc_leaf_temp(P, Tleaf, tair, gsc,
\*                                       par, vpd, pressure, wind, rnet=rnet)
CalcLeafTemp ==
    /\ pc = "leaftemp"
    /\ LET a == args
           k_rnet == key_rnet(Tleaf, a.tair, a.par, a.vpd, a.pressure)
           k_cond == key_conductances(Tleaf, a.tair, a.wind, gsc, a.pressure)
       IN  \E rn \in Answers(k_rnet, calc_rnet_results),
              cd \in Answers(k_cond, calc_conductances_results) :
             LET rnet == IF a.rnet = None THEN rn ELSE a.rnet[1]
                 k_et == key_et(Tleaf, a.tair, a.vpd, a.pressure, a.wind,
                                a.par, cd[2], cd[4], rnet)
             IN  \E el \in Answers(k_et, calc_et_results) :
                   LET P == [calc_rnet |-> rn, calc_conductances |-> cd,
                             calc_et |-> el]
                       out == calc_leaf_temp(P, Tleaf, a.tair, gsc, a.par,
                                             a.vpd, a.pressure, a.wind, a.rnet)
                       ans == [k \in {k_rnet, k_cond, k_et} |->
                                 IF k = k_rnet THEN rn
                                 ELSE IF k = k_cond THEN cd ELSE el]
                   IN  /\ new_tleaf' = out.new_Tleaf
                       /\ et' = out.et
                       /\ le_et' = out.le_et
                       /\ gbH' = out.gbH
                       /\ gw' = out.gw
                       /\ memo' = Remember(out.calls, ans)
                       /\ trace' = [trace EXCEPT
                                      !.nleaftemp = @ + 1,
                                      !.LT_tleaf = Tleaf,
                                      !.LT_gsc = gsc,
                                      !.LT_out = <<out.new_Tleaf, out.et,
                                                   out.le_et, out.gbH, out.gw>>,
                                      !.calls = {k[1] : k \in out.calls}]
    /\ pc' = "update"
    /\ UNCHANGED <<self, args, dleaf, dair, Cs, Tleaf, Tleaf_K, elevation,
                   iter, An, gsc, Ci, result, raised, det, seen, ncalls>>

\* the rest of an iteration: Cs, dleaf, the convergence test, the cap, and
\* the update of Tleaf and iter
Update ==
    /\ pc = "update"
    /\ LET gbc == gbc_of(gbH)
           met == converged(Tleaf, new_tleaf)
           cap == ~met /\ capped(iter, self.iter_max)
           adv == advance(Tleaf, new_tleaf)
       IN  /\ Cs' = surface_co2(args.Ca, An, gbc)
           /\ dleaf' = surface_vpd(et, gw, args.pressure, dair)
           /\ trace' = [trace EXCEPT
                          !.divisors = @ \cup surface_co2_divisors(An, gbc)]
           /\ pc' = IF met THEN "scale" ELSE IF cap THEN "raised" ELSE "photo"
           /\ raised' = IF cap THEN <<iter>> ELSE None
           /\ seen' = IF cap THEN Seen(args, None, <<iter>>) ELSE seen
           /\ Tleaf' = IF met \/ cap THEN Tleaf ELSE adv[1]
           /\ Tleaf_K' = IF met \/ cap THEN Tleaf_K ELSE adv[2]
           /\ iter' = IF met \/ cap THEN iter ELSE next_iter(iter)
    /\ UNCHANGED <<self, args, dair, elevation, An, gsc, Ci, new_tleaf, et,
                   le_et, gbH, gw, result, det, memo, ncalls>>

\* after the loop: the canopy values, and return
Scale ==
    /\ pc = "scale"
    /\ LET res == canopy(An, gsc, et, args.LAI)
       IN  /\ result' = res
           /\ seen' = Seen(args, res, None)
    /\ pc' = "done"
    /\ UNCHANGED <<self, args, locals, raised, trace, det, memo, ncalls>>

-----------------------------------------------------------------------------
(* Specifications *)

InitOf(d) ==
    /\ self \in {CoupledModel(n) : n \in 0 .. MaxIterMax}
    /\ args = None
    /\ pc = "idle"
    /\ dleaf = Unbound /\ dair = Unbound /\ Cs = Unbound
    /\ Tleaf = Unbound /\ Tleaf_K = Unbound /\ elevation = Unbound
    /\ iter = Unbound
    /\ An = Unbound /\ gsc = Unbound /\ Ci = Unbound
    /\ new_tleaf = Unbound /\ et = Unbound /\ le_et = Unbound
    /\ gbH = Unbound /\ gw = Unbound
    /\ result = None
    /\ raised = None
    /\ trace = NoTrace
    /\ det = d
    /\ memo = <<>>
    /\ seen = <<>>
    /\ ncalls = 0

Init == InitOf(FALSE)

InitDet == InitOf(TRUE)

Next ==
    \/ Main_Enter
    \/ CalcPhotosynthesis
    \/ CalcLeafTemp
    \/ Update
    \/ Scale

\* collaborators answer freely
Spec == Init /\ [][Next]_vars

\* collaborators are deterministic
SpecDet == InitDet /\ [][Next]_vars

\* main runs to its end: one thread, no suspension points
FairSpec == Init /\ [][Next]_vars /\ WF_vars(Next)

-----------------------------------------------------------------------------
(* Properties *)

Running == pc \in {"photo", "leaftemp", "update", "scale"}

Ended == pc \in {"done", "raised"}

\* the running or last call took the sun-up branch
SunUpCall == pc # "idle" /\ elevation > 0 /\ args.par > 20

\* C1: a call with par <= 20 or elevation <= 0 returns exactly (0, 0, 0) and
\* runs no iteration: neither calc_photosynthesis nor calc_leaf_temp is called.
C1_DarknessGate ==
    (pc # "idle" /\ (args.par <= 20 \/ elevation <= 0)) =>
        /\ pc = "done"
        /\ result = <<0, 0, 0>>
        /\ raised = None
        /\ trace.nphoto = 0
        /\ trace.nleaftemp = 0
        /\ trace.calls = {}

\* a call under a high sun with too little light has returned
C1_Witness ==
    /\ pc = "done"
    /\ elevation > 0
    /\ args.par = 20
    /\ args.LAI > 0
    /\ result = <<0, 0, 0>>

\* C2: a result returned from the sun-up branch comes from an iteration with
\* |Tleaf - new_tleaf| < 0.02; a call that raised returned no tuple.
C2_SuccessImpliesConvergence ==
    /\ (SunUpCall /\ (pc = "scale" \/ result # None)) =>
           /\ Abs(Tleaf - new_tleaf) < 2
           /\ Tleaf = trace.LT_tleaf
           /\ new_tleaf = trace.LT_out[1]
           /\ raised = None
    /\ (pc = "raised") => (result = None /\ Abs(Tleaf - new_tleaf) >= 2)
    /\ (SunUpCall /\ Running /\ pc # "scale") => result = None

\* a sun-up call has returned after more than one iteration
C2_Witness ==
    /\ pc = "done"
    /\ SunUpCall
    /\ trace.nphoto >= 2
    /\ result # None

\* C3 (as claimed): a call that raises 'No convergence' has made exactly
\* iter_max evaluations of the demand model and of the energy-balance step.
C3_RaisesAfterIterMax ==
    (pc = "raised") =>
        /\ trace.nphoto = self.iter_max
        /\ trace.nleaftemp = self.iter_max

\* C4: a converged sun-up call returns (An * LAI, gsc * GSC_2_GSW * LAI,
\* et * LAI), An and gsc being the answer of the last calc_photosynthesis and
\* et that of the last calc_leaf_temp, both of the converged iteration.
C4_CanopyScaling ==
    (pc = "done" /\ SunUpCall) =>
        /\ result = <<trace.F_out[1] * args.LAI,
                      ((trace.F_out[2] * 1570) \div 1000) * args.LAI,
                      trace.LT_out[2] * args.LAI>>
        /\ trace.nphoto = iter + 1
        /\ trace.nleaftemp = iter + 1
        /\ trace.LT_gsc = trace.F_out[2]
        /\ Abs(trace.LT_tleaf - trace.LT_out[1]) < 2

\* LAI = 2 doubles An = 10 after a second iteration
C4_Witness ==
    /\ pc = "done"
    /\ SunUpCall
    /\ trace.nphoto >= 2
    /\ args.LAI = 2
    /\ trace.F_out[1] = 10000
    /\ result[1] = 20000
    /\ result[2] = 942

\* C5 (as claimed): a call with LAI = 0 always ends with the canopy outputs
\* (0, 0, 0).
C5_ZeroLAIAlwaysZero ==
    (Ended /\ args.LAI = 0) => result = <<0, 0, 0>>

\* C5 (amended): a call with LAI = 0 that returns, returns (0, 0, 0).
C5_ZeroLAIReturnsZero ==
    (pc = "done" /\ args.LAI = 0) => result = <<0, 0, 0>>

\* the sun is up, the per-leaf values are not zero, LAI = 0
C5_Witness ==
    /\ pc = "done"
    /\ SunUpCall
    /\ args.LAI = 0
    /\ An # 0 /\ gsc # 0 /\ et # 0
    /\ result = <<0, 0, 0>>

\* C6: main writes no attribute of the instance; the iteration state of a
\* call is set from its own arguments before the first iteration; and, the
\* collaborators being deterministic, a call ends as the first call with the
\* same arguments on this instance ended, whatever was called in between.
C6_Idempotence ==
    /\ [][self' = self]_vars
    /\ []((pc = "photo" /\ trace.nphoto = 0) =>
             /\ Tleaf = args.tair
             /\ Tleaf_K = args.tair + 27315
             /\ Cs = args.Ca
             /\ dleaf = args.vpd
             /\ dair = args.vpd
             /\ iter = 0)
    /\ []((Ended /\ args \in DOMAIN seen) =>
             seen[args] = Outcome(result, raised))

\* a third call repeats the arguments of the first, after a call with other
\* arguments, and has iterated more than once
C6_Witness ==
    /\ Ended
    /\ ncalls = 3
    /\ Cardinality(DOMAIN seen) = 2
    /\ trace.nphoto >= 2
    /\ seen[args] = Outcome(result, raised)

C9_SurfaceCO2 ==
    /\ (pc \in {"photo", "scale", "done", "raised"} /\ trace.nleaftemp > 0) =>
           Cs = IF (gbH * 758) \div 1000 > 0 /\ An > 0
                THEN args.Ca - (An \div ((gbH * 758) \div 1000))
                ELSE args.Ca
    /\ SunUpCall => (Cs <= args.Ca /\ \A d \in trace.divisors : d > 0)
    /\ (SunUpCall /\ trace.nphoto > 0) => trace.F_Cs <= args.Ca

\* the demand model was called with Cs below Ca
C9_Witness ==
    /\ pc = "leaftemp"
    /\ trace.nphoto >= 2
    /\ trace.F_Cs < args.Ca
    /\ trace.divisors # {}

\* C10: calc_photosynthesis gets Tleaf_K = Tleaf + DEG_2_KELVIN and
\* calc_leaf_temp the same Tleaf; Tleaf is tair in the first iteration, stays
\* while an iteration runs, and becomes new_tleaf only when the iteration
\* neither converged nor raised.
C10_TleafOrdering ==
    /\ []((pc \in {"leaftemp", "update"}) =>
             /\ trace.F_Tleaf = Tleaf + 27315
             /\ Tleaf_K = Tleaf + 27315)
    /\ []((pc = "update") => trace.LT_tleaf = Tleaf)
    /\ []((Running /\ iter = 0) => Tleaf = args.tair)
    /\ [][(pc = "update" /\ pc' = "photo") =>
            /\ Tleaf' = new_tleaf
            /\ Abs(Tleaf - new_tleaf) >= 2
            /\ iter <= self.iter_max]_vars
    /\ [][(Running /\ ~(pc = "update" /\ pc' = "photo")) =>
            Tleaf' = Tleaf]_vars

\* the second iteration runs at the candidate of the first
C10_Witness ==
    /\ pc = "update"
    /\ trace.nphoto = 2
    /\ Tleaf # args.tair
    /\ trace.LT_tleaf = Tleaf

====
